---- MODULE Spec2Model ----
(***************************************************************************)
(* Timezone-injecting mutating admission webhook: the policy               *)
(* (mutationRequired), the patch builders (updateContainers, updateVolume, *)
(* updateAnnotation, createPatch) and the decision procedure               *)
(* (WebhookServer.mutate), with the consumer of the emitted patch          *)
(* (RFC 6902 JSON-Patch over RFC 6901 pointers) modelled as operators.     *)
(*                                                                         *)
(* Strings are TLA+ strings; Len, \o, SubSeq and Tail act on them          *)
(* character by character.  A Go slice is a record [isNil, elems] and a Go *)
(* map a record [isNil, kv]; in the JSON document of a pod a nil volume    *)
(* list or annotation map is an absent member.                             *)
(***************************************************************************)
EXTENDS Integers, Sequences, FiniteSets, TLC

VARIABLES
    ignoredNamespaces,  \* WebhookServer.ignoredNamespaces
    tz,                 \* WebhookServer.tz
    pc,                 \* per in-flight call of mutate: its position
    raw,                \* per call: req.Object.Raw
    pod,                \* per call: the local `var pod corev1.Pod`
    required,           \* per call: what mutationRequired returned
    resp                \* per call: the *v1beta1.AdmissionResponse returned

vars == <<ignoredNamespaces, tz, pc, raw, pod, required, resp>>

-----------------------------------------------------------------------------
(* Bounds of the model *)

MaxContainers == 2
MaxMounts == 1
MaxVolumes == 1
NWorkers == 2

-----------------------------------------------------------------------------
(* Strings *)

UpperChars == "ABCDEFGHIJKLMNOPQRSTUVWXYZ"
LowerChars == "abcdefghijklmnopqrstuvwxyz"

CharAt(s, i) == SubSeq(s, i, i)

ToLowerCh(c) ==
    IF \E i \in 1..Len(UpperChars) : CharAt(UpperChars, i) = c
    THEN CharAt(LowerChars, CHOOSE i \in 1..Len(UpperChars) : CharAt(UpperChars, i) = c)
    ELSE c

RECURSIVE ToLower(_)
ToLower(s) == IF s = "" THEN "" ELSE ToLowerCh(CharAt(s, 1)) \o ToLower(Tail(s))

-----------------------------------------------------------------------------
(* Go slices and maps *)

NilSlice == [isNil |-> TRUE, elems |-> <<>>]
Slice(seq) == [isNil |-> FALSE, elems |-> seq]
GoAppend(s, x) == [isNil |-> FALSE, elems |-> Append(s.elems, x)]

NilMap == [isNil |-> TRUE, kv |-> <<>>]
GoMap(f) == [isNil |-> FALSE, kv |-> f]
\* m[k] of a Go map: the zero value "" for a missing key or a nil map
MapGet(m, k) == IF k \in DOMAIN m.kv THEN m.kv[k] ELSE ""

-----------------------------------------------------------------------------
(* Constants of the program *)

admissionWebhookAnnotationInjectKey == "adjust-tz.k8s.example.io/inject"
admissionWebhookAnnotationStatusKey == "adjust-tz.k8s.example.io/status"

NamespaceSystem == "kube-system"
NamespacePublic == "kube-public"

\* main: the Mount Descriptor built from the default --tz flag
tzFile == [name      |-> "local-tz",
           hostPath  |-> "/usr/share/zoneinfo/" \o "Asia/Shanghai",
           mountPath |-> "/etc/localtime"]

PatchTypeJSONPatch == "JSONPatch"

-----------------------------------------------------------------------------
(* Policy *)

RECURSIVE InList(_, _)
InList(list, x) ==
    IF list = <<>> THEN FALSE
    ELSE IF x = Head(list) THEN TRUE ELSE InList(Tail(list), x)

\* the policy with the status annotation compared as written, case not folded
mutationRequired_CaseSensitive(ignoredList, metadata) ==
    IF InList(ignoredList, metadata.namespace) THEN FALSE
    ELSE LET annotations == IF metadata.annotations.isNil THEN GoMap(<<>>)
                            ELSE metadata.annotations
             status == MapGet(annotations, admissionWebhookAnnotationStatusKey)
         IN  IF status = "injected" THEN FALSE
             ELSE ToLower(MapGet(annotations, admissionWebhookAnnotationInjectKey))
                      \notin {"n", "no", "false", "off"}

mutationRequired(ignoredList, metadata) ==
    IF InList(ignoredList, metadata.namespace) THEN FALSE
    ELSE LET annotations == IF metadata.annotations.isNil THEN GoMap(<<>>)
                            ELSE metadata.annotations
             status == MapGet(annotations, admissionWebhookAnnotationStatusKey)
         IN  IF ToLower(status) = "injected" THEN FALSE
             ELSE ToLower(MapGet(annotations, admissionWebhookAnnotationInjectKey))
                      \notin {"n", "no", "false", "off"}

-----------------------------------------------------------------------------
(* Patch builders *)

NoHostPath == [isNil |-> TRUE, Path |-> ""]
HostPath(p) == [isNil |-> FALSE, Path |-> p]

RECURSIVE tzHostPathInjected(_, _)
tzHostPathInjected(volumes, t) ==
    IF volumes = <<>> THEN FALSE
    ELSE LET v == Head(volumes)
         IN  IF v.name = t.name \/ (~v.hostPath.isNil /\ v.hostPath.Path = t.hostPath)
             THEN TRUE
             ELSE tzHostPathInjected(Tail(volumes), t)

RECURSIVE tzFileMounted(_, _)
tzFileMounted(volumeMounts, t) ==
    IF volumeMounts = <<>> THEN FALSE
    ELSE LET v == Head(volumeMounts)
         IN  IF v.name = t.name \/ v.mountPath = t.mountPath
             THEN TRUE
             ELSE tzFileMounted(Tail(volumeMounts), t)

PatchOp(op, path, kind, value) ==
    [Op |-> op, Path |-> path, Value |-> [kind |-> kind, v |-> value]]

\* the volume builder looking for the descriptor's volume by name alone
updateVolume_ByName(volumes, t, basePath) ==
    LET vs == IF ~(\E i \in 1..Len(volumes.elems) : volumes.elems[i].name = t.name)
              THEN GoAppend(volumes, [name |-> t.name, hostPath |-> HostPath(t.hostPath)])
              ELSE volumes
    IN  <<PatchOp("replace", basePath, "volumes", vs)>>

updateVolume(volumes, t, basePath) ==
    LET vs == IF ~tzHostPathInjected(volumes.elems, t)
              THEN GoAppend(volumes, [name |-> t.name, hostPath |-> HostPath(t.hostPath)])
              ELSE volumes
    IN  <<PatchOp("replace", basePath, "volumes", vs)>>

updateContainer(c, t) ==
    LET c1 == IF c.volumeMounts.isNil
              THEN [c EXCEPT !.volumeMounts = Slice(<<>>)]
              ELSE c
    IN  IF ~tzFileMounted(c1.volumeMounts.elems, t)
        THEN [c1 EXCEPT !.volumeMounts =
                 GoAppend(c1.volumeMounts,
                          [name |-> t.name, readOnly |-> TRUE, mountPath |-> t.mountPath])]
        ELSE c1

RECURSIVE patchContainers(_, _, _)
patchContainers(containers, t, patchedContainers) ==
    IF containers = <<>> THEN patchedContainers
    ELSE patchContainers(Tail(containers), t,
                         GoAppend(patchedContainers, updateContainer(Head(containers), t)))

\* the container builder collecting the patched containers last first
updateContainers_Reversed(containers, t, basePath) ==
    LET n == Len(containers.elems)
    IN  <<PatchOp("replace", basePath, "containers",
                  IF n = 0 THEN NilSlice
                  ELSE Slice([i \in 1..n |-> updateContainer(containers.elems[n + 1 - i], t)]))>>

updateContainers(containers, t, basePath) ==
    <<PatchOp("replace", basePath, "containers",
              patchContainers(containers.elems, t, NilSlice))>>

\* the annotation builder without its replace branch
updateAnnotation_AlwaysAdd(target, added) ==
    LET key == CHOOSE k \in DOMAIN added.kv : TRUE
    IN  <<PatchOp("add", "/metadata/annotations", "map",
                  GoMap([k \in {key} |-> added.kv[key]]))>>

\* `added` holds one pair (mutate passes a one-entry map), so the range loop
\* has one iteration
updateAnnotation(target, added) ==
    LET key == CHOOSE k \in DOMAIN added.kv : TRUE
        value == added.kv[key]
    IN  IF target.isNil \/ MapGet(target, key) = ""
        THEN <<PatchOp("add", "/metadata/annotations", "map",
                       GoMap([k \in {key} |-> value]))>>
        ELSE <<PatchOp("replace", "/metadata/annotations/" \o key, "string", value)>>

\* the operations createPatch collects, before json.Marshal
patchOperations(p, t, annotations) ==
    updateContainers(p.spec.containers, t, "/spec/containers")
        \o updateVolume(p.spec.volumes, t, "/spec/volumes")
        \o updateAnnotation(p.metadata.annotations, annotations)

\* json.Marshal of the operations: a container's empty mount list is left out
\* (`omitempty`), so a reader of the bytes sees none
marshalContainer(c) ==
    IF Len(c.volumeMounts.elems) = 0 THEN [c EXCEPT !.volumeMounts = NilSlice] ELSE c

marshalValue(val) ==
    IF val.kind = "containers" /\ ~val.v.isNil
    THEN [val EXCEPT !.v = Slice([i \in 1..Len(val.v.elems) |->
                                      marshalContainer(val.v.elems[i])])]
    ELSE val

jsonMarshal(patch) ==
    [isNil |-> FALSE,
     ops   |-> [i \in 1..Len(patch) |-> [patch[i] EXCEPT !.Value = marshalValue(@)]]]

createPatch(p, t, annotations) ==
    [bytes |-> jsonMarshal(patchOperations(p, t, annotations)), err |-> ""]

-----------------------------------------------------------------------------
(* Requests and responses *)

ZeroPod ==
    [metadata |-> [namespace |-> "", name |-> "", annotations |-> NilMap],
     spec     |-> [containers |-> NilSlice, volumes |-> NilSlice]]

NoRaw == [kind |-> "none", doc |-> ZeroPod]
RawPod(p) == [kind |-> "pod", doc |-> p]
RawBad(kind) == [kind |-> kind, doc |-> ZeroPod]

\* json.Unmarshal(req.Object.Raw, &pod)
jsonUnmarshal(r) ==
    CASE r.kind = "pod"       -> [pod |-> r.doc, err |-> ""]
      [] r.kind = "truncated" -> [pod |-> ZeroPod, err |-> "unexpected end of JSON input"]
      [] r.kind = "wrongtype" ->
             [pod |-> ZeroPod,
              err |-> "json: cannot unmarshal string into Go value of type v1.Pod"]
      [] OTHER                ->
             [pod |-> ZeroPod,
              err |-> "invalid character 'p' looking for beginning of value"]

NilStatus == [isNil |-> TRUE, Message |-> ""]
NilBytes == [isNil |-> TRUE, ops |-> <<>>]
NilPatchType == [isNil |-> TRUE, v |-> ""]

\* the zero value of v1beta1.AdmissionResponse
ZeroResponse ==
    [Allowed |-> FALSE, Result |-> NilStatus, Patch |-> NilBytes,
     PatchType |-> NilPatchType]

\* an error response that leaves the Result out
ErrorResponse_NoMessage(msg) == ZeroResponse

ErrorResponse(msg) ==
    [ZeroResponse EXCEPT !.Result = [isNil |-> FALSE, Message |-> msg]]

SkipResponse == [ZeroResponse EXCEPT !.Allowed = TRUE]

\* a patch response that leaves the PatchType out
PatchResponse_NoType(patchBytes) ==
    [ZeroResponse EXCEPT !.Allowed = TRUE, !.Patch = patchBytes]

PatchResponse(patchBytes) ==
    [ZeroResponse EXCEPT !.Allowed = TRUE, !.Patch = patchBytes,
                         !.PatchType = [isNil |-> FALSE, v |-> PatchTypeJSONPatch]]

statusAnnotations ==
    GoMap([k \in {admissionWebhookAnnotationStatusKey} |-> "injected"])

\* WebhookServer.mutate as one function of the configuration and the raw object
mutate(ignored, t, r) ==
    LET u == jsonUnmarshal(r)
    IN  IF u.err # "" THEN ErrorResponse(u.err)
        ELSE IF ~mutationRequired(ignored, u.pod.metadata) THEN SkipResponse
        ELSE LET cp == createPatch(u.pod, t, statusAnnotations)
             IN  IF cp.err # "" THEN ErrorResponse(cp.err)
                 ELSE PatchResponse(cp.bytes)

-----------------------------------------------------------------------------
(* The consumer of the patch: RFC 6901 pointers, RFC 6902 operations *)

RECURSIVE splitSlash(_, _, _)
splitSlash(s, cur, out) ==
    IF s = "" THEN Append(out, cur)
    ELSE IF CharAt(s, 1) = "/" THEN splitSlash(Tail(s), "", Append(out, cur))
    ELSE splitSlash(Tail(s), cur \o CharAt(s, 1), out)

RECURSIVE unescapeToken(_)
unescapeToken(s) ==
    IF s = "" THEN ""
    ELSE IF Len(s) >= 2 /\ SubSeq(s, 1, 2) = "~1"
         THEN "/" \o unescapeToken(SubSeq(s, 3, Len(s)))
    ELSE IF Len(s) >= 2 /\ SubSeq(s, 1, 2) = "~0"
         THEN "~" \o unescapeToken(SubSeq(s, 3, Len(s)))
    ELSE CharAt(s, 1) \o unescapeToken(Tail(s))

\* the reference tokens of a JSON pointer: each is prefixed by "/", and "/"
\* inside a member name must have been written "~1"
PointerTokens(path) ==
    IF path = "" THEN <<>>
    ELSE LET parts == Tail(splitSlash(path, "", <<>>))
         IN  [i \in 1..Len(parts) |-> unescapeToken(parts[i])]

PatchFailed(doc) == [ok |-> FALSE, doc |-> doc]
PatchDone(doc) == [ok |-> TRUE, doc |-> doc]

\* one operation on the JSON document of a pod.  "replace" needs the target
\* member to exist; "add" needs its parent to exist and replaces an existing
\* member's whole value.  Annotation values are strings, so a pointer cannot
\* descend below an annotation.
applyOp(doc, op) ==
    LET toks == PointerTokens(op.Path)
        kind == op.Value.kind
        anns == doc.metadata.annotations
    IN  IF op.Op \notin {"add", "replace"} THEN PatchFailed(doc)
        ELSE IF toks = <<"spec", "containers">> /\ kind = "containers"
        THEN IF op.Op = "replace" /\ doc.spec.containers.isNil THEN PatchFailed(doc)
             ELSE PatchDone([doc EXCEPT !.spec.containers = op.Value.v])
        ELSE IF toks = <<"spec", "volumes">> /\ kind = "volumes"
        THEN IF op.Op = "replace" /\ doc.spec.volumes.isNil THEN PatchFailed(doc)
             ELSE PatchDone([doc EXCEPT !.spec.volumes = op.Value.v])
        ELSE IF toks = <<"metadata", "annotations">> /\ kind = "map"
        THEN IF op.Op = "replace" /\ anns.isNil THEN PatchFailed(doc)
             ELSE PatchDone([doc EXCEPT !.metadata.annotations = op.Value.v])
        ELSE IF Len(toks) = 3 /\ SubSeq(toks, 1, 2) = <<"metadata", "annotations">>
                /\ kind = "string"
        THEN IF anns.isNil THEN PatchFailed(doc)
             ELSE IF op.Op = "replace" /\ toks[3] \notin DOMAIN anns.kv THEN PatchFailed(doc)
             ELSE PatchDone([doc EXCEPT !.metadata.annotations =
                      GoMap([k \in DOMAIN anns.kv \cup {toks[3]} |->
                                IF k = toks[3] THEN op.Value.v ELSE anns.kv[k]])])
        ELSE PatchFailed(doc)

RECURSIVE applyOps(_, _)
applyOps(doc, ops) ==
    IF ops = <<>> THEN PatchDone(doc)
    ELSE LET r == applyOp(doc, Head(ops))
         IN  IF r.ok THEN applyOps(r.doc, Tail(ops)) ELSE r

\* the operations in emission order; a patch of which one operation fails is
\* not applied at all
applyPatch(doc, patchBytes) ==
    LET r == applyOps(doc, patchBytes.ops)
    IN  IF r.ok THEN r ELSE PatchFailed(doc)

-----------------------------------------------------------------------------
(* Inputs *)

Workers == 1..NWorkers

SeqsUpTo(S, n) == UNION {[1..k -> S] : k \in 0..n}

MountUniverse ==
    {[name |-> "local-tz", readOnly |-> FALSE, mountPath |-> "/tz"],
     [name |-> "data",     readOnly |-> FALSE, mountPath |-> "/etc/localtime"],
     [name |-> "data",     readOnly |-> FALSE, mountPath |-> "/data"],
     [name |-> "local-tz", readOnly |-> TRUE,  mountPath |-> "/etc/localtime"]}

MountLists == {NilSlice} \cup {Slice(s) : s \in SeqsUpTo(MountUniverse, MaxMounts)}

ContainerNames == <<"app", "sidecar", "proxy", "logger">>

ContainerLists ==
    UNION {{Slice([i \in 1..k |-> [name |-> ContainerNames[i], volumeMounts |-> ms[i]]])
              : ms \in [1..k -> MountLists]} : k \in 0..MaxContainers}

VolumeUniverse ==
    {[name |-> "local-tz", hostPath |-> HostPath(tzFile.hostPath)],
     [name |-> "zoneinfo", hostPath |-> HostPath(tzFile.hostPath)],
     [name |-> "local-tz", hostPath |-> NoHostPath],
     [name |-> "data",     hostPath |-> NoHostPath],
     [name |-> "logs",     hostPath |-> HostPath("/var/log")]}

VolumeLists == {NilSlice} \cup {Slice(s) : s \in SeqsUpTo(VolumeUniverse, MaxVolumes)}

OtherKey == "owner"
AnnotationKeys ==
    {admissionWebhookAnnotationStatusKey, admissionWebhookAnnotationInjectKey, OtherKey}
StatusValues == {"", "injected", "Injected", "pending"}
InjectValues == {"n", "No", "FALSE", "oFF", "yes", "nope"}
AnnotationValues(k) ==
    IF k = admissionWebhookAnnotationStatusKey THEN StatusValues
    ELSE IF k = admissionWebhookAnnotationInjectKey THEN InjectValues
    ELSE {"web"}

AnnotationMaps ==
    {NilMap} \cup
    UNION {{GoMap(f) : f \in {g \in [K -> StatusValues \cup InjectValues \cup {"web"}] :
                                 \A k \in K : g[k] \in AnnotationValues(k)}}
              : K \in SUBSET AnnotationKeys}

Namespaces == {"default", NamespaceSystem}

IgnoredLists == {<<>>, <<NamespaceSystem, NamespacePublic>>, <<"default">>}

MkPod(ns, anns, cs, vs) ==
    [metadata |-> [namespace |-> ns, name |-> "web-0", annotations |-> anns],
     spec     |-> [containers |-> cs, volumes |-> vs]]

OneContainer(ms) == Slice(<<[name |-> ContainerNames[1], volumeMounts |-> ms]>>)

ContainerSamples ==
    {Slice(<<>>), OneContainer(NilSlice),
     OneContainer(Slice(<<[name |-> "data", readOnly |-> FALSE, mountPath |-> "/data"]>>))}

VolumeSamples ==
    {NilSlice,
     Slice(<<[name |-> "zoneinfo", hostPath |-> HostPath(tzFile.hostPath)]>>),
     Slice(<<[name |-> "local-tz", hostPath |-> NoHostPath]>>),
     Slice(<<[name |-> "logs", hostPath |-> HostPath("/var/log")]>>)}

AnnotationSamples == {NilMap, GoMap([k \in {OtherKey} |-> "web"])}

\* pods that vary the namespace and the annotations
PodsByPolicy ==
    {MkPod(ns, a, OneContainer(NilSlice), vs) :
        ns \in Namespaces, a \in AnnotationMaps,
        vs \in {NilSlice, Slice(<<[name |-> "logs", hostPath |-> HostPath("/var/log")]>>)}}

\* pods that vary the containers and their mounts
PodsByContainers ==
    {MkPod("default", a, cs, vs) :
        a \in AnnotationSamples, cs \in ContainerLists, vs \in VolumeSamples}

\* pods that vary the volumes
PodsByVolumes ==
    {MkPod("default", a, cs, vs) :
        a \in AnnotationSamples, cs \in ContainerSamples, vs \in VolumeLists}

BadRaws == {RawBad("truncated"), RawBad("wrongtype"), RawBad("notjson")}

Raws == BadRaws \cup {RawPod(p) : p \in PodsByPolicy \cup PodsByContainers \cup PodsByVolumes}

\* the requests in flight together when calls interleave
ConcurrentRaws ==
    {RawBad("truncated")} \cup
    {RawPod(MkPod(ns, a, OneContainer(NilSlice),
                  Slice(<<[name |-> "logs", hostPath |-> HostPath("/var/log")]>>))) :
        ns \in Namespaces,
        a \in {NilMap,
               GoMap([k \in {admissionWebhookAnnotationStatusKey} |-> "Injected"]),
               GoMap([k \in {admissionWebhookAnnotationInjectKey} |-> "oFF"]),
               GoMap([k \in {OtherKey} |-> "web"])}}

-----------------------------------------------------------------------------
(* The server *)

Init ==
    /\ ignoredNamespaces \in IgnoredLists
    /\ tz = tzFile
    /\ pc = [w \in Workers |-> "idle"]
    /\ raw = [w \in Workers |-> NoRaw]
    /\ pod = [w \in Workers |-> ZeroPod]
    /\ required = [w \in Workers |-> "unset"]
    /\ resp = [w \in Workers |-> ZeroResponse]

\* the pod kept in one variable shared by every call
callPod_Shared(w) == pod[1]

\* the pod a call of mutate works on: its own local variable
callPod(w) == pod[w]

\* serve hands a decoded review to mutate
Receive(w, inputs) ==
    /\ pc[w] = "idle"
    /\ \E r \in inputs : raw' = [raw EXCEPT ![w] = r]
    /\ pod' = [pod EXCEPT ![w] = ZeroPod]
    /\ pc' = [pc EXCEPT ![w] = "unmarshal"]
    /\ UNCHANGED <<ignoredNamespaces, tz, required, resp>>

Unmarshal(w) ==
    /\ pc[w] = "unmarshal"
    /\ LET u == jsonUnmarshal(raw[w])
       IN  IF u.err # ""
           THEN /\ resp' = [resp EXCEPT ![w] = ErrorResponse(u.err)]
                /\ pc' = [pc EXCEPT ![w] = "done"]
                /\ UNCHANGED pod
           ELSE /\ pod' = [pod EXCEPT ![w] = u.pod]
                /\ pc' = [pc EXCEPT ![w] = "policy"]
                /\ UNCHANGED resp
    /\ UNCHANGED <<ignoredNamespaces, tz, raw, required>>

Policy(w) ==
    /\ pc[w] = "policy"
    /\ LET req == mutationRequired(ignoredNamespaces, callPod(w).metadata)
       IN  /\ required' = [required EXCEPT ![w] = IF req THEN "true" ELSE "false"]
           /\ IF ~req
              THEN /\ resp' = [resp EXCEPT ![w] = SkipResponse]
                   /\ pc' = [pc EXCEPT ![w] = "done"]
              ELSE /\ pc' = [pc EXCEPT ![w] = "patch"]
                   /\ UNCHANGED resp
    /\ UNCHANGED <<ignoredNamespaces, tz, raw, pod>>

Patch(w) ==
    /\ pc[w] = "patch"
    /\ LET cp == createPatch(callPod(w), tz, statusAnnotations)
       IN  resp' = [resp EXCEPT ![w] = IF cp.err # "" THEN ErrorResponse(cp.err)
                                       ELSE PatchResponse(cp.bytes)]
    /\ pc' = [pc EXCEPT ![w] = "done"]
    /\ UNCHANGED <<ignoredNamespaces, tz, raw, pod, required>>

\* serve writes the response; the call's locals are gone
Reply(w) ==
    /\ pc[w] = "done"
    /\ pc' = [pc EXCEPT ![w] = "idle"]
    /\ raw' = [raw EXCEPT ![w] = NoRaw]
    /\ pod' = [pod EXCEPT ![w] = ZeroPod]
    /\ required' = [required EXCEPT ![w] = "unset"]
    /\ resp' = [resp EXCEPT ![w] = ZeroResponse]
    /\ UNCHANGED <<ignoredNamespaces, tz>>

Step(w, inputs) ==
    \/ Receive(w, inputs)
    \/ Unmarshal(w)
    \/ Policy(w)
    \/ Patch(w)
    \/ Reply(w)

\* one request at a time, over the wide input set
Next == Step(1, Raws)

Spec == Init /\ [][Next]_vars

\* NWorkers calls of mutate in flight, interleaved step by step
NextConcurrent == \E w \in Workers : Step(w, ConcurrentRaws)

SpecConcurrent == Init /\ [][NextConcurrent]_vars

-----------------------------------------------------------------------------
(* Vocabulary of the properties *)

Done(w) == pc[w] = "done"
Parsed(w) == raw[w].kind = "pod"
Patched(w) == Done(w) /\ Parsed(w) /\ ~resp[w].Patch.isNil

\* the value an operation of the emitted patch carries for `path`
EmittedAt(w, path) ==
    LET ops == resp[w].Patch.ops
    IN  ops[CHOOSE i \in 1..Len(ops) : ops[i].Path = path].Value.v

SameLetter(c, d) ==
    \/ c = d
    \/ \E j \in 1..Len(UpperChars) :
           {c, d} = {CharAt(UpperChars, j), CharAt(LowerChars, j)}

\* equality of two strings up to the case of their letters
EqualFold(a, b) ==
    /\ Len(a) = Len(b)
    /\ \A i \in 1..Len(a) : SameLetter(CharAt(a, i), CharAt(b, i))

AnnotationOf(metadata, k) ==
    IF metadata.annotations.isNil \/ k \notin DOMAIN metadata.annotations.kv THEN ""
    ELSE metadata.annotations.kv[k]

VolumeMatches(v) ==
    v.name = tzFile.name \/ (~v.hostPath.isNil /\ v.hostPath.Path = tzFile.hostPath)
MountMatches(m) == m.name = tzFile.name \/ m.mountPath = tzFile.mountPath
SomeVolumeMatches(vs) == \E i \in 1..Len(vs) : VolumeMatches(vs[i])
SomeMountMatches(ms) == \E i \in 1..Len(ms) : MountMatches(ms[i])

InjectedVolume == [name |-> tzFile.name, hostPath |-> HostPath(tzFile.hostPath)]
InjectedMount ==
    [name |-> tzFile.name, readOnly |-> TRUE, mountPath |-> tzFile.mountPath]

IsPrefix(s, t) == Len(s) <= Len(t) /\ SubSeq(t, 1, Len(s)) = s

-----------------------------------------------------------------------------
(* C1 *)

\* C1: mutationRequired returns true if and only if the namespace is not in the
\* ignored list, the status annotation is not "injected" up to case, and the
\* inject annotation is none of "n", "no", "false", "off" up to case; a missing
\* key or a nil map counts as the empty value.
C1_PolicyDecision ==
    \A w \in Workers :
        required[w] # "unset" =>
            LET md == pod[w].metadata
            IN  (required[w] = "true") <=>
                    /\ \A i \in 1..Len(ignoredNamespaces) :
                           ignoredNamespaces[i] # md.namespace
                    /\ ~EqualFold(AnnotationOf(md, admissionWebhookAnnotationStatusKey),
                                  "injected")
                    /\ \A t \in {"n", "no", "false", "off"} :
                           ~EqualFold(AnnotationOf(md, admissionWebhookAnnotationInjectKey), t)

\* a pod outside the ignored namespaces whose status is "Injected" in mixed
\* case was decided not to need mutation
C1_Witness ==
    \E w \in Workers :
        /\ required[w] = "false"
        /\ \A i \in 1..Len(ignoredNamespaces) :
               ignoredNamespaces[i] # pod[w].metadata.namespace
        /\ AnnotationOf(pod[w].metadata, admissionWebhookAnnotationStatusKey) = "Injected"

-----------------------------------------------------------------------------
(* C2 *)

-----------------------------------------------------------------------------
(* C3 *)

\* C3: for every parsable pod that requires mutation, applying the emitted
\* patch in emission order and deciding again on the result yields
\* AllowedUnchanged (allowed, no patch).
C3_Idempotent ==
    \A w \in Workers :
        Patched(w) =>
            LET res == applyPatch(raw[w].doc, resp[w].Patch)
            IN  mutate(ignoredNamespaces, tz, RawPod(res.doc)) = SkipResponse

-----------------------------------------------------------------------------
(* C4 *)

\* C4: for a parsable pod, mutate returns AllowedUnchanged (allowed, no patch,
\* no patch type) exactly when mutationRequired is false, and otherwise
\* AllowedWithPatch (allowed, a non-empty JSON-Patch); nothing else is returned,
\* and no patch exists before the policy has been evaluated.
C4_Outcome ==
    \A w \in Workers :
        /\ Done(w) /\ Parsed(w) =>
              /\ required[w] \in {"true", "false"}
              /\ required[w] = "false" <=> resp[w] = SkipResponse
              /\ resp[w] = SkipResponse <=>
                     ~mutationRequired(ignoredNamespaces, raw[w].doc.metadata)
              /\ required[w] = "true" =>
                     /\ resp[w].Allowed = TRUE
                     /\ resp[w].Result.isNil
                     /\ ~resp[w].Patch.isNil /\ Len(resp[w].Patch.ops) > 0
                     /\ ~resp[w].PatchType.isNil
                     /\ resp[w].PatchType.v = PatchTypeJSONPatch
        /\ ~resp[w].Patch.isNil => required[w] = "true"
        /\ pc[w] = "patch" => required[w] = "true" /\ resp[w].Patch.isNil
        /\ pc[w] \in {"unmarshal", "policy"} => required[w] = "unset" /\ resp[w].Patch.isNil

C4_Witness == \E w \in Workers : Patched(w) /\ required[w] = "true"

-----------------------------------------------------------------------------
(* C5 *)

\* the mounts of a container, a nil list read as the empty one
MountsOf(c) == c.volumeMounts.elems

\* C5: the volume list emitted is the input list unchanged when some volume
\* matches the Mount Descriptor by name or by host path, and the input list
\* with exactly one host-path volume (descriptor name and host path) appended
\* otherwise; each container gets exactly one read-only mount (descriptor name
\* and mount path) appended when none of its mounts matches by name or by mount
\* path and none when one does; each builder adds nothing to its own output.
C5_NoDuplication ==
    \A w \in Workers :
        Patched(w) =>
            LET vin == pod[w].spec.volumes
                vout == EmittedAt(w, "/spec/volumes")
                cin == pod[w].spec.containers.elems
                cout == EmittedAt(w, "/spec/containers").elems
            IN  /\ IF SomeVolumeMatches(vin.elems) THEN vout = vin
                   ELSE vout.elems = Append(vin.elems, InjectedVolume)
                /\ Len(cout) = Len(cin)
                /\ \A i \in 1..Len(cin) :
                       IF SomeMountMatches(MountsOf(cin[i]))
                       THEN MountsOf(cout[i]) = MountsOf(cin[i])
                       ELSE MountsOf(cout[i]) = Append(MountsOf(cin[i]), InjectedMount)
                /\ updateVolume(vout, tz, "/spec/volumes")[1].Value.v = vout
                /\ patchContainers(cout, tz, NilSlice).elems = cout

\* a patch was emitted for a pod that has a volume matching by host path only
\* and a container none of whose mounts matches
C5_Witness ==
    \E w \in Workers :
        /\ Patched(w)
        /\ \E i \in 1..Len(pod[w].spec.volumes.elems) :
               LET v == pod[w].spec.volumes.elems[i]
               IN  v.name # tzFile.name /\ VolumeMatches(v)
        /\ \E i \in 1..Len(pod[w].spec.containers.elems) :
               ~SomeMountMatches(MountsOf(pod[w].spec.containers.elems[i]))

-----------------------------------------------------------------------------
(* C6 *)

\* C6: the container list emitted for /spec/containers has the length of the
\* input list and the same names in the same order, and each emitted mount
\* list is the input mount list followed by at most one mount.
C6_OrderPreserved ==
    \A w \in Workers :
        Patched(w) =>
            LET cin == pod[w].spec.containers.elems
                cout == EmittedAt(w, "/spec/containers").elems
            IN  /\ Len(cout) = Len(cin)
                /\ \A i \in 1..Len(cin) :
                       /\ cout[i].name = cin[i].name
                       /\ IsPrefix(MountsOf(cin[i]), MountsOf(cout[i]))
                       /\ Len(MountsOf(cout[i])) <= Len(MountsOf(cin[i])) + 1

\* a patch was emitted for two containers, the first with a mount of its own
\* and the second given the appended mount
C6_Witness ==
    \E w \in Workers :
        /\ Patched(w)
        /\ Len(pod[w].spec.containers.elems) >= 2
        /\ Len(MountsOf(pod[w].spec.containers.elems[1])) >= 1
        /\ ~SomeMountMatches(MountsOf(pod[w].spec.containers.elems[2]))

-----------------------------------------------------------------------------
(* C7 *)

OpsAt(ops, path) == {i \in 1..Len(ops) : ops[i].Path = path}

\* C7: the patch has exactly three operations: one replace of /spec/containers
\* with the whole container list, one replace of /spec/volumes with the whole
\* volume list, and one for the status annotation: an add of
\* /metadata/annotations with the one-entry map {status key: "injected"} when
\* the annotation map is absent or has no non-empty status value, a replace of
\* /metadata/annotations/<status key> with "injected" otherwise.
C7_ThreeOperations ==
    \A w \in Workers :
        Patched(w) =>
            LET ops == resp[w].Patch.ops
                md == pod[w].metadata
                cOps == OpsAt(ops, "/spec/containers")
                vOps == OpsAt(ops, "/spec/volumes")
                aOps == (1..Len(ops)) \ (cOps \cup vOps)
                a == ops[CHOOSE i \in aOps : TRUE]
            IN  /\ Len(ops) = 3
                /\ Cardinality(cOps) = 1 /\ Cardinality(vOps) = 1 /\ Cardinality(aOps) = 1
                /\ \A i \in cOps :
                       /\ ops[i].Op = "replace"
                       /\ Len(ops[i].Value.v.elems) = Len(pod[w].spec.containers.elems)
                /\ \A i \in vOps :
                       /\ ops[i].Op = "replace"
                       /\ IsPrefix(pod[w].spec.volumes.elems, ops[i].Value.v.elems)
                /\ IF AnnotationOf(md, admissionWebhookAnnotationStatusKey) = ""
                   THEN /\ a.Op = "add"
                        /\ a.Path = "/metadata/annotations"
                        /\ a.Value.kind = "map"
                        /\ DOMAIN a.Value.v.kv = {"adjust-tz.k8s.example.io/status"}
                        /\ a.Value.v.kv["adjust-tz.k8s.example.io/status"] = "injected"
                   ELSE /\ a.Op = "replace"
                        /\ a.Path = "/metadata/annotations/adjust-tz.k8s.example.io/status"
                        /\ a.Value.kind = "string"
                        /\ a.Value.v = "injected"

\* a patch was emitted for a pod whose status annotation held another value
C7_Witness ==
    \E w \in Workers :
        /\ Patched(w)
        /\ AnnotationOf(pod[w].metadata, admissionWebhookAnnotationStatusKey) = "pending"

-----------------------------------------------------------------------------
(* C8 *)

\* C8: whatever the interleaving of the calls in flight, the ignored-namespace
\* list and the Mount Descriptor never change, and the response of each call is
\* the one mutate gives for that call's own raw object and the configuration.
C8_Independent ==
    /\ [](\A w \in Workers :
              Done(w) => resp[w] = mutate(ignoredNamespaces, tzFile, raw[w]))
    /\ [][ignoredNamespaces' = ignoredNamespaces /\ tz' = tz]_vars

\* two calls have finished together on different objects, one with a patch and
\* one without
C8_Witness ==
    \E v, w \in Workers :
        /\ v # w /\ Done(v) /\ Done(w)
        /\ raw[v] # raw[w]
        /\ Patched(v) /\ Parsed(w) /\ resp[w].Patch.isNil

-----------------------------------------------------------------------------
(* C9 *)

\* C9: for a pod that requires mutation and has annotations other than the
\* status key, applying the emitted patch leaves each of them present with its
\* value.
C9_AnnotationsPreserved ==
    \A w \in Workers :
        Patched(w) =>
            LET before == raw[w].doc.metadata.annotations
                after == applyPatch(raw[w].doc, resp[w].Patch).doc.metadata.annotations
            IN  \A k \in DOMAIN before.kv \ {admissionWebhookAnnotationStatusKey} :
                    k \in DOMAIN after.kv /\ after.kv[k] = before.kv[k]

-----------------------------------------------------------------------------
(* C10 *)

\* C10: in the emitted container and volume lists, every mount the builder
\* appended is named after a volume of the emitted volume list whose host path
\* is the Mount Descriptor's.
C10_MountHasVolume ==
    \A w \in Workers :
        Patched(w) =>
            LET cin == pod[w].spec.containers.elems
                cout == EmittedAt(w, "/spec/containers").elems
                vout == EmittedAt(w, "/spec/volumes").elems
            IN  \A i \in 1..Len(cout) :
                    Len(MountsOf(cout[i])) > Len(MountsOf(cin[i])) =>
                        LET m == MountsOf(cout[i])[Len(MountsOf(cout[i]))]
                        IN  \E j \in 1..Len(vout) :
                                /\ vout[j].name = m.name
                                /\ ~vout[j].hostPath.isNil
                                /\ vout[j].hostPath.Path = tzFile.hostPath

====
